---- MODULE Spec2Model ----
(***************************************************************************)
(* Static evaluation functions for the game of Isolation                   *)
(* (heuristics.py: class Heuristic) and the argmax helper                  *)
(* (isolation_utilities.py).                                               *)
(*                                                                         *)
(* The board (isolation.Board) is a collaborator whose source is not part  *)
(* of the two files modelled here; it is modelled from its published       *)
(* interface: knight moves on a Width x Height grid, visited cells stay    *)
(* blocked, the active player without a legal move has lost.               *)
(*                                                                         *)
(* Python floats are modelled as reduced fractions [num, den]; den = 0     *)
(* stands for an infinity (num = 1: +inf, num = -1: -inf).  The language   *)
(* level is Python 3: `/` is true division and ordering an int against a   *)
(* list raises TypeError.                                                  *)
(***************************************************************************)
EXTENDS Integers, Sequences, FiniteSets, TLC

VARIABLES board, heur, op, player, method, seq, fn, result

vars == <<board, heur, op, player, method, seq, fn, result>>

(* ---------------------------- bounds ---------------------------------- *)
Width == 4
Height == 3
MaxMoves == 4
MaxLen == 3
MaxElem == 3

(* --------------------------- floats ----------------------------------- *)
Abs(x) == IF x < 0 THEN -x ELSE x

RECURSIVE Gcd(_, _)
Gcd(a, b) == IF b = 0 THEN a ELSE Gcd(b, a % b)

\* float(n/d) for d # 0, as a reduced fraction with a positive denominator
Float(n, d) ==
  LET g == Gcd(Abs(n), Abs(d))
      s == IF d < 0 THEN -1 ELSE 1
  IN [num |-> (s * n) \div g, den |-> (s * d) \div g]

PosInf == [num |-> 1, den |-> 0]
NegInf == [num |-> -1, den |-> 0]
Zero == [num |-> 0, den |-> 1]
IsFinite(x) == x.den > 0

\* python's builtin max on two ints
max(a, b) == IF b > a THEN b ELSE a

(* --------------------- results of a call ------------------------------- *)
\* kind: "return" or "raise"; val: the float returned; elem: the element
\* returned by argmax (-1: none); exc, arg: the exception raised and its
\* argument
Return(v) == [kind |-> "return", val |-> v, elem |-> -1, exc |-> "", arg |-> ""]
Raise(e, a) == [kind |-> "raise", val |-> Zero, elem |-> -1, exc |-> e, arg |-> a]
ReturnElem(e) == [kind |-> "return", val |-> Zero, elem |-> e, exc |-> "", arg |-> ""]
NoResult == [kind |-> "none", val |-> Zero, elem |-> -1, exc |-> "", arg |-> ""]

\* what a call leaves behind: its outcome and the board object it was given
Outcome(r, s) == [res |-> r, state |-> s]

(* ------------------- the board (isolation.Board) ----------------------- *)
Players == {"p1", "p2"}
NOT_MOVED == <<-1, -1>>
Cells == (0 .. Height - 1) \X (0 .. Width - 1)

NewBoard ==
  [width |-> Width, height |-> Height, blocked |-> {},
   loc |-> [p \in Players |-> NOT_MOVED],
   active |-> "p1", inactive |-> "p2", move_count |-> 0]

get_blank_spaces(state) == Cells \ state.blocked

Directions ==
  {<<-1, -2>>, <<-1, 2>>, <<1, -2>>, <<1, 2>>,
   <<-2, -1>>, <<-2, 1>>, <<2, -1>>, <<2, 1>>}

\* state.get_legal_moves(p); the caller passes the active player for the
\* python default argument
get_legal_moves(state, p) ==
  IF state.loc[p] = NOT_MOVED
  THEN get_blank_spaces(state)
  ELSE {c \in get_blank_spaces(state) :
          \E d \in Directions :
             c = <<state.loc[p][1] + d[1], state.loc[p][2] + d[2]>>}

get_opponent(state, p) == IF p = state.active THEN state.inactive ELSE state.active

is_loser(state, p) == p = state.active /\ get_legal_moves(state, state.active) = {}
is_winner(state, p) == p = state.inactive /\ get_legal_moves(state, state.active) = {}

\* board.apply_move(move): mutates the board it is called on
apply_move(state, move) ==
  [state EXCEPT !.blocked = @ \cup {move},
                !.loc = [@ EXCEPT ![state.active] = move],
                !.active = state.inactive,
                !.inactive = state.active,
                !.move_count = @ + 1]

\* board.forecast_move(move): applies the move to a copy
forecast_move(state, move) == apply_move(state, move)

(* ------------------- strategies (class Heuristic) ---------------------- *)
\* python's len on a list of distinct items
len(S) == Cardinality(S)

\* the loop of action_mobility over states_one_step_ahead
RECURSIVE best_moves_loop(_, _)
best_moves_loop(states_one_step_ahead, best_moves_ahead) ==
  IF states_one_step_ahead = {} THEN best_moves_ahead
  ELSE LET future_state == CHOOSE s \in states_one_step_ahead : TRUE
           num_new_moves == len(get_legal_moves(future_state, future_state.inactive))
       IN best_moves_loop(states_one_step_ahead \ {future_state},
                          max(best_moves_ahead, num_new_moves))

\* faulty variant: the moves are applied to the state itself instead of a forecast
action_mobility_inplace(state) ==
  LET legal_moves == get_legal_moves(state, state.active)
      states_one_step_ahead == {forecast_move(state, move) : move \in legal_moves}
      best_moves_ahead == best_moves_loop(states_one_step_ahead, 0)
      last == IF legal_moves = {} THEN state
              ELSE apply_move(state, CHOOSE move \in legal_moves : TRUE)
  IN IF len(legal_moves) = 0
     THEN Outcome(Raise("ZeroDivisionError", "division by zero"), last)
     ELSE Outcome(Return(Float(best_moves_ahead, len(legal_moves))), last)

\* faulty variant: python 2 style floor division
action_mobility_floordiv(state) ==
  LET legal_moves == get_legal_moves(state, state.active)
      states_one_step_ahead == {forecast_move(state, move) : move \in legal_moves}
      best_moves_ahead == best_moves_loop(states_one_step_ahead, 0)
  IN IF len(legal_moves) = 0
     THEN Outcome(Raise("ZeroDivisionError", "division by zero"), state)
     ELSE Outcome(Return(Float(best_moves_ahead \div len(legal_moves), 1)), state)

\* faulty variant: the moves counted are those of the inactive player
action_mobility_inactive(state) ==
  LET legal_moves == get_legal_moves(state, state.inactive)
      states_one_step_ahead == {forecast_move(state, move) : move \in get_legal_moves(state, state.active)}
      best_moves_ahead == best_moves_loop(states_one_step_ahead, 0)
  IN IF len(legal_moves) = 0
     THEN Outcome(Raise("ZeroDivisionError", "division by zero"), state)
     ELSE Outcome(Return(Float(best_moves_ahead, len(legal_moves))), state)

\* faulty variant: an empty list of legal moves scores 0.0
action_mobility_guarded(state) ==
  LET legal_moves == get_legal_moves(state, state.active)
      states_one_step_ahead == {forecast_move(state, move) : move \in legal_moves}
      best_moves_ahead == best_moves_loop(states_one_step_ahead, 0)
  IN IF len(legal_moves) = 0
     THEN Outcome(Return(Zero), state)
     ELSE Outcome(Return(Float(best_moves_ahead, len(legal_moves))), state)

action_mobility(state) ==
  LET legal_moves == get_legal_moves(state, state.active)
      states_one_step_ahead == {forecast_move(state, move) : move \in legal_moves}
      best_moves_ahead == best_moves_loop(states_one_step_ahead, 0)
  IN IF len(legal_moves) = 0
     THEN Outcome(Raise("ZeroDivisionError", "division by zero"), state)
     ELSE Outcome(Return(Float(best_moves_ahead, len(legal_moves))), state)

\* the default of the parameter weight, 2.5 = WeightNum / WeightDen
WeightNum == 5
WeightDen == 2

the_super_duper_hugo_heuristic(state) ==
  LET filled_spaces == (state.width * state.height) - len(get_blank_spaces(state))
      player_moves == len(get_legal_moves(state, state.active))
      opponent_moves == len(get_legal_moves(state, get_opponent(state, state.inactive)))
  IN Outcome(Return(Float((WeightDen * player_moves - WeightNum * opponent_moves) * filled_spaces,
                          WeightDen)), state)

action_focus(state) ==
  LET m == action_mobility(state)
  IN IF m.res.kind = "raise" THEN m
     ELSE Outcome(Return(Float(m.res.val.den - m.res.val.num, m.res.val.den)), m.state)

(* --------------------------- Heuristic.score --------------------------- *)
Registered == {"action_mobility", "action_focus", "the_super_duper_hugo_heuristic"}

\* methods[method](state)
methods(m, state) ==
  IF m = "action_mobility" THEN action_mobility(state)
  ELSE IF m = "action_focus" THEN action_focus(state)
  ELSE IF m = "the_super_duper_hugo_heuristic" THEN the_super_duper_hugo_heuristic(state)
  ELSE Outcome(Raise("KeyError", m), state)

\* faulty variant: the strategy is looked up before the terminal checks
score_lookup_first(self, state, p, m) ==
  IF m \notin Registered THEN Outcome(Raise("KeyError", m), state)
  ELSE IF is_loser(state, p) THEN Outcome(Return(NegInf), state)
  ELSE IF is_winner(state, p) THEN Outcome(Return(PosInf), state)
  ELSE methods(m, state)

\* faulty variant: methods.get(method, self.action_mobility)
score_fallback(self, state, p, m) ==
  IF is_loser(state, p) THEN Outcome(Return(NegInf), state)
  ELSE IF is_winner(state, p) THEN Outcome(Return(PosInf), state)
  ELSE IF m \in Registered THEN methods(m, state) ELSE action_mobility(state)

\* faulty variant: the score is negated for the player who is not to move
score_sided(self, state, p, m) ==
  IF is_loser(state, p) THEN Outcome(Return(NegInf), state)
  ELSE IF is_winner(state, p) THEN Outcome(Return(PosInf), state)
  ELSE LET r == methods(m, state)
       IN IF r.res.kind = "return" /\ p # state.active
          THEN Outcome(Return(Float(-r.res.val.num, r.res.val.den)), r.state)
          ELSE r

score(self, state, p, m) ==
  IF is_loser(state, p) THEN Outcome(Return(NegInf), state)
  ELSE IF is_winner(state, p) THEN Outcome(Return(PosInf), state)
  ELSE methods(m, state)

\* Heuristic(game, player)
Heuristic(game, p) == [game |-> game, player |-> p]

(* ------------------------------ argmax --------------------------------- *)
\* the scoring functions passed to argmax:
\*   identity: lambda x: x        negate:  lambda x: -x
\*   constant: lambda x: 0        nonzero: lambda x: x != 0
Fns == {"identity", "negate", "constant", "nonzero"}

\* fn(i) for an element i of the sequence (an int)
fn_elem(f, i) ==
  IF f = "identity" THEN i
  ELSE IF f = "negate" THEN -i
  ELSE IF f = "constant" THEN 0
  ELSE IF i # 0 THEN 1 ELSE 0

\* fn(seq) for the whole (non-empty) list: the type of the value it gives
\* and, for an int, the value
fn_list(f, s) ==
  IF f = "identity" THEN [type |-> "list", v |-> 0]
  ELSE IF f = "negate" THEN [type |-> "TypeError", v |-> 0]
  ELSE IF f = "constant" THEN [type |-> "int", v |-> 0]
  ELSE [type |-> "int", v |-> 1]

\* the for loop of argmax from position i on, best_score an int
RECURSIVE argmax_loop(_, _, _, _, _)
argmax_loop(s, f, i, best, best_score) ==
  IF i > Len(s) THEN best
  ELSE LET n_score == fn_elem(f, s[i])
       IN IF n_score > best_score
          THEN argmax_loop(s, f, i + 1, s[i], n_score)
          ELSE argmax_loop(s, f, i + 1, best, best_score)

\* faulty variant: an empty sequence gives None
argmax_none(s, f) ==
  IF Len(s) = 0 THEN ReturnElem(-1)
  ELSE LET best == s[1]
           best_score == fn_list(f, s)
       IN IF best_score.type = "TypeError"
          THEN Raise("TypeError", "bad operand type for unary -: list")
          ELSE IF best_score.type = "list"
          THEN Raise("TypeError", "> not supported between instances of int and list")
          ELSE ReturnElem(argmax_loop(s, f, 1, best, best_score.v))

argmax(s, f) ==
  IF Len(s) = 0 THEN Raise("IndexError", "list index out of range")
  ELSE LET best == s[1]
           best_score == fn_list(f, s)
       IN IF best_score.type = "TypeError"
          THEN Raise("TypeError", "bad operand type for unary -: list")
          ELSE IF best_score.type = "list"
          THEN Raise("TypeError", "> not supported between instances of int and list")
          ELSE ReturnElem(argmax_loop(s, f, 1, best, best_score.v))

(* ------------------------- the state machine --------------------------- *)
\* strategy identifiers a caller passes: the registered ones, the declared
\* but unregistered state_focus, and weighted_differential
MethodIds == Registered \cup {"state_focus", "weighted_differential"}

Elems == 0 .. MaxElem
SeqInputs == UNION {[1 .. n -> Elems] : n \in 0 .. MaxLen}

Init ==
  /\ board = NewBoard
  /\ heur = Heuristic(NewBoard, "p1")
  /\ op = "none" /\ player = "" /\ method = ""
  /\ seq = <<>> /\ fn = "identity"
  /\ result = NoResult

\* the game goes on: the active player moves
ApplyMove ==
  /\ board.move_count < MaxMoves
  /\ \E move \in get_legal_moves(board, board.active) : board' = apply_move(board, move)
  /\ op' = "none" /\ player' = "" /\ method' = ""
  /\ result' = NoResult
  /\ UNCHANGED <<heur, seq, fn>>

\* the caller takes the outcome of the call it made
Consume ==
  /\ op # "none"
  /\ op' = "none" /\ player' = "" /\ method' = ""
  /\ result' = NoResult
  /\ UNCHANGED <<board, heur, seq, fn>>

\* heur.score(board, p, m); calls are sequential, one is made once the
\* outcome of the one before has been taken
Score ==
  /\ op = "none"
  /\ \E p \in Players, m \in MethodIds :
    LET o == score(heur, board, p, m)
    IN /\ board' = o.state
       /\ result' = o.res
       /\ op' = "score" /\ player' = p /\ method' = m
       /\ UNCHANGED <<heur, seq, fn>>

\* a strategy called directly on the board
Strategy ==
  /\ op = "none"
  /\ \E m \in Registered :
    LET o == methods(m, board)
    IN /\ board' = o.state
       /\ result' = o.res
       /\ op' = "strategy" /\ player' = "" /\ method' = m
       /\ UNCHANGED <<heur, seq, fn>>

Next == ApplyMove \/ Consume \/ Score \/ Strategy

Spec == Init /\ [][Next]_vars

\* argmax: the inputs are drawn by the initial state
InitArgmax ==
  /\ board = NewBoard
  /\ heur = Heuristic(NewBoard, "p1")
  /\ op = "none" /\ player = "" /\ method = ""
  /\ seq \in SeqInputs /\ fn \in Fns
  /\ result = NoResult

Argmax ==
  /\ op = "none"
  /\ result' = argmax(seq, fn)
  /\ op' = "argmax"
  /\ UNCHANGED <<board, heur, player, method, seq, fn>>

NextArgmax == Argmax

SpecArgmax == InitArgmax /\ [][NextArgmax]_vars

(* ------------------------------ claims --------------------------------- *)
Terminal(state, p) == is_loser(state, p) \/ is_winner(state, p)
HasMoves(state) == get_legal_moves(state, state.active) # {}

\* C1: score on a state lost for the player returns -inf and on a state won
\* for the player returns +inf, whatever strategy identifier is passed,
\* registered or not.
C1_TerminalShortcut ==
  op = "score" =>
    /\ is_loser(board, player) => result = Return(NegInf)
    /\ is_winner(board, player) => result = Return(PosInf)

C1_Witness ==
  /\ op = "score" /\ method \notin Registered
  /\ is_loser(board, player) /\ result = Return(NegInf)

\* C2 as stated: score on a non-terminal state with an unregistered
\* identifier fails with an UnknownStrategyError.
C2_UnknownStrategyError ==
  (op = "score" /\ ~Terminal(board, player) /\ method \notin Registered)
    => (result.kind = "raise" /\ result.exc = "UnknownStrategyError")

\* C2 amended: score on a non-terminal state with an unregistered identifier
\* fails with a KeyError whose argument is the requested identifier; it
\* returns no score and does not fall back to action_mobility.
C2_KeyError ==
  (op = "score" /\ ~Terminal(board, player) /\ method \notin Registered)
    => result = Raise("KeyError", method)

C2_Witness ==
  /\ op = "score" /\ ~Terminal(board, player) /\ method = "state_focus"
  /\ board.move_count > 0
  /\ result.kind = "raise"

\* C3: on a state neither lost nor won for the player, score with a
\* registered strategy returns a finite number and raises nothing.
C3_FiniteNonTerminal ==
  (op = "score" /\ ~Terminal(board, player) /\ method \in Registered)
    => (result.kind = "return" /\ IsFinite(result.val))

C3_Witness ==
  /\ op = "score" /\ ~Terminal(board, player) /\ method = "action_focus"
  /\ player = board.active
  /\ get_legal_moves(board, board.inactive) = {}
  /\ result.kind = "return" /\ IsFinite(result.val)

\* the element argmax is to return: the first one whose score no other
\* element exceeds
FirstBest(s, f) ==
  CHOOSE i \in 1 .. Len(s) :
    /\ \A j \in 1 .. Len(s) : fn_elem(f, s[j]) <= fn_elem(f, s[i])
    /\ \A j \in 1 .. (i - 1) : fn_elem(f, s[j]) < fn_elem(f, s[i])

\* C4: argmax on a non-empty sequence returns the first element of greatest
\* score.
C4_ArgmaxFirstGreatest ==
  (op = "argmax" /\ Len(seq) > 0) => result = ReturnElem(seq[FirstBest(seq, fn)])

\* C5 as stated: argmax on an empty sequence fails with an
\* EmptySequenceError.
C5_EmptySequenceError ==
  (op = "argmax" /\ Len(seq) = 0)
    => (result.kind = "raise" /\ result.exc = "EmptySequenceError")

\* C5 amended: argmax on an empty sequence fails with an IndexError and
\* returns no element, for every scoring function.
C5_IndexError ==
  (op = "argmax" /\ Len(seq) = 0)
    => (result.kind = "raise" /\ result.exc = "IndexError" /\ result.elem = -1)

C5_Witness ==
  op = "argmax" /\ seq = <<>> /\ fn = "negate" /\ result.kind = "raise"

\* C6 as stated: action_mobility and action_focus called on a state whose
\* active player has no legal move fail with a NoLegalMovesError.
C6_NoLegalMovesError ==
  (op = "strategy" /\ method \in {"action_mobility", "action_focus"} /\ ~HasMoves(board))
    => (result.kind = "raise" /\ result.exc = "NoLegalMovesError")

\* C6 amended: action_mobility and action_focus called on a state whose
\* active player has no legal move fail with a ZeroDivisionError and return
\* no score.
C6_ZeroDivisionError ==
  (op = "strategy" /\ method \in {"action_mobility", "action_focus"} /\ ~HasMoves(board))
    => (result.kind = "raise" /\ result.exc = "ZeroDivisionError")

C6_Witness ==
  /\ op = "strategy" /\ method = "action_focus" /\ ~HasMoves(board)
  /\ result.exc = "ZeroDivisionError"

\* C7: no call of score changes the board it is given or the fields of the
\* evaluator.
C7_NoMutation ==
  [][op' = "score" => (board' = board /\ heur' = heur)]_vars

C7_Witness ==
  /\ op = "score" /\ method = "action_mobility" /\ HasMoves(board)
  /\ board.move_count >= 2
  /\ result.kind = "return"

\* C8: the_super_duper_hugo_heuristic returns
\* (player_moves - 2.5 * opponent_moves) * filled_spaces with opponent_moves
\* the number of legal moves of the other participant.
C8_OpponentMoves ==
  (op = "strategy" /\ method = "the_super_duper_hugo_heuristic")
    => LET filled == board.width * board.height - Cardinality(Cells \ board.blocked)
           mine == Cardinality(get_legal_moves(board, board.active))
           theirs == Cardinality(get_legal_moves(board, board.inactive))
       IN result = Return(Float((WeightDen * mine - WeightNum * theirs) * filled, WeightDen))

\* the greatest number of follow-up moves the mover keeps over all its moves
BestAhead(state) ==
  LET counts == {Cardinality(get_legal_moves(apply_move(state, m), state.active)) :
                   m \in get_legal_moves(state, state.active)}
  IN CHOOSE n \in counts : \A k \in counts : k <= n

\* C9: with at least one legal move, action_mobility returns the exact ratio
\* best_moves_ahead / len(legal_moves), which is never negative.
C9_ExactRatio ==
  (op = "strategy" /\ method = "action_mobility" /\ HasMoves(board))
    => /\ result.kind = "return" /\ IsFinite(result.val)
       /\ result.val.num * Cardinality(get_legal_moves(board, board.active))
            = BestAhead(board) * result.val.den
       /\ result.val.num >= 0

\* the ratio exceeds 1.0
C9_Witness ==
  /\ op = "strategy" /\ method = "action_mobility" /\ HasMoves(board)
  /\ result.kind = "return" /\ result.val.num > result.val.den

\* C10: on a non-terminal state the score of a registered strategy is the
\* same for the active and for the inactive player.
C10_PlayerIndependent ==
  (op = "score" /\ HasMoves(board) /\ method \in Registered)
    => result = score(heur, board, get_opponent(board, player), method).res

C10_Witness ==
  /\ op = "score" /\ HasMoves(board) /\ method = "the_super_duper_hugo_heuristic"
  /\ player = board.inactive
  /\ result.kind = "return" /\ result.val.num # 0

====
